---- MODULE Spec2Model ----
(***************************************************************************)
(* The simulation core of the Snake game (src/src/main.rs): the systems    *)
(* of the FixedUpdate schedule, run one at a time in any order the         *)
(* schedule's ordering constraints allow, over the entity store, the two   *)
(* resources and the two event queues.                                     *)
(*                                                                         *)
(* Entities are opaque handles, so the model names an entity by its place: *)
(* a listed segment by its index in SnakeSegments, a food entity by its    *)
(* cell (a bag of cells), an unlisted segment entity by a count.           *)
(* Commands (spawn, despawn) are deferred: they take effect when the       *)
(* schedule applies them, at the sync point between snake_eating and       *)
(* snake_growth and at the end of the schedule run.                        *)
(***************************************************************************)
EXTENDS Integers, Sequences, FiniteSets, Bags, TLC

\* ------------------------------------------------------------ constants
ARENA_WIDTH == 10
ARENA_HEIGHT == 10

\* the cell both start segments are spawned at (spawn_snake)
StartX == 3
StartY == 3

\* ------------------------------------------------------------ bounds
\* the longest chain explored: snake_growth does not push beyond it
MaxLen == 3
\* the most food entities (live or queued) for which the food timer fires
MaxFood == 2
\* the most runs of snake_movement between two resets for which the move
\* timer fires
MaxMoves == 4
\* the most runs of the FixedUpdate schedule within one frame, that is between
\* two event updates
MaxTicks == 1
\* random::<f32>() is modelled as k / RandDen for k in 0 .. RandDen-1
RandDen == 3

\* ------------------------------------------------------------ values
\* Option<T>: None is the empty sequence, Some(v) the one-element sequence
None == << >>

\* mutant of Some: the value is dropped
Some_dropped(v) == << >>

Some(v) == <<v>>

\* Option::unwrap of a value that is not None
unwrap(o) == o[1]

Direction == {"Left", "Right", "Up", "Down"}

KeyCode == {"ArrowLeft", "ArrowDown", "ArrowUp", "ArrowRight"}

StartPosition == <<StartX, StartY>>

\* the systems of the FixedUpdate schedule; apply_deferred is the sync point
\* the schedule inserts after snake_eating, the only ordered system with
\* Commands that another system is ordered after
Always == {"snake_movement_input", "apply_deferred", "game_over"}

OnMoveTimer == {"snake_movement", "snake_eating", "snake_growth"}

OnFoodTimer == {"food_spawner"}

\* mutant of Before: snake_growth and the sync point carry no ordering
Before_growth_unordered(s) ==
    CASE s = "snake_movement" -> {"snake_movement_input"}
      [] s = "snake_eating" -> {"snake_movement_input", "snake_movement"}
      [] s = "game_over" -> {"snake_movement_input", "snake_movement"}
      [] OTHER -> {}

\* s |-> the systems the schedule finishes (runs, or skips on a false run
\* condition) before s: the .before/.after edges of main, closed transitively
Before(s) ==
    CASE s = "snake_movement" -> {"snake_movement_input"}
      [] s = "snake_eating" -> {"snake_movement_input", "snake_movement"}
      [] s = "apply_deferred" ->
            {"snake_movement_input", "snake_movement", "snake_eating"}
      [] s = "snake_growth" ->
            {"snake_movement_input", "snake_movement", "snake_eating",
             "apply_deferred"}
      [] s = "game_over" -> {"snake_movement_input", "snake_movement"}
      [] OTHER -> {}

\* ------------------------------------------------------------ state
VARIABLES
    segments,            \* SnakeSegments.0, entry: [pos, spawned]
    direction,           \* SnakeHead.direction of the live head entity
    last_tail_position,  \* LastTailPosition.0: None or a position
    foods,               \* bag of the cells of the live Food entities
    foodSpawns,          \* bag of cells: queued spawns of Food entities
    foodDespawns,        \* bag of cells: live Food entities queued for despawn
    retired,             \* None, or the live snake entities queued for despawn
    orphans,             \* segment entities that SnakeSegments does not list
    growthEvents,        \* Events<GrowthEvent>: [a, b] sizes of the two buffers
    gameOverEvents,      \* Events<GameOverEvent>: [a, b]
    ticks,               \* fixed ticks run since the last event update
    due,                 \* the systems of the running tick ({} between ticks)
    ran,                 \* the systems that have run in the running tick
    segment_positions,   \* snake_movement's snapshot of the running tick
    valid_position,      \* food_spawner's local after its latest draw
    panicked,            \* an unwrap() failed
    moves                \* runs of snake_movement since the start or the last reset

vars == <<segments, direction, last_tail_position, foods, foodSpawns,
          foodDespawns, retired, orphans, growthEvents, gameOverEvents,
          ticks, due, ran, segment_positions, valid_position, panicked,
          moves>>

\* ------------------------------------------------------------ helpers
\* Direction::opposite
opposite(d) ==
    CASE d = "Left" -> "Right"
      [] d = "Right" -> "Left"
      [] d = "Up" -> "Down"
      [] d = "Down" -> "Up"

\* the candidate direction snake_movement_input derives from the pressed keys
pressed_dir(keys, current) ==
    IF "ArrowLeft" \in keys THEN "Left"
    ELSE IF "ArrowDown" \in keys THEN "Down"
    ELSE IF "ArrowUp" \in keys THEN "Up"
    ELSE IF "ArrowRight" \in keys THEN "Right"
    ELSE current

\* mutant of set_direction: the opposite test is left out
set_direction_unchecked(d, current) ==
    d

\* the direction snake_movement_input leaves in the head
set_direction(d, current) ==
    IF d # opposite(current) THEN d ELSE current

\* mutant of head_step: the y axis points down
head_step_flipped(p, d) ==
    CASE d = "Left" -> <<p[1] - 1, p[2]>>
      [] d = "Right" -> <<p[1] + 1, p[2]>>
      [] d = "Up" -> <<p[1], p[2] - 1>>
      [] d = "Down" -> <<p[1], p[2] + 1>>

\* the head's position after the match on head.direction
head_step(p, d) ==
    CASE d = "Left" -> <<p[1] - 1, p[2]>>
      [] d = "Right" -> <<p[1] + 1, p[2]>>
      [] d = "Up" -> <<p[1], p[2] + 1>>
      [] d = "Down" -> <<p[1], p[2] - 1>>

\* mutant of out_of_bounds: every comparison is off by one
out_of_bounds_off_by_one(p) ==
    \/ p[1] < -1
    \/ p[2] < -1
    \/ p[1] > ARENA_WIDTH
    \/ p[2] > ARENA_HEIGHT

\* the first game-over test of snake_movement
out_of_bounds(p) ==
    \/ p[1] < 0
    \/ p[2] < 0
    \/ p[1] >= ARENA_WIDTH
    \/ p[2] >= ARENA_HEIGHT

\* mutant of contains: the tail's cell, vacated in the step, is not compared
contains_but_last(snapshot, p) ==
    \E i \in 1..(Len(snapshot) - 1) : snapshot[i] = p

\* segment_positions.contains(&head_pos)
contains(snapshot, p) ==
    \E i \in 1..Len(snapshot) : snapshot[i] = p

\* mutant of game_over_sends: the snapshot is searched for the head's cell
\* before the move
game_over_sends_premove(snapshot, p) ==
    (IF out_of_bounds(p) THEN 1 ELSE 0)
    + (IF contains(snapshot, snapshot[1]) THEN 1 ELSE 0)

\* the number of GameOverEvents one snake_movement sends
game_over_sends(snapshot, p) ==
    (IF out_of_bounds(p) THEN 1 ELSE 0) + (IF contains(snapshot, p) THEN 1 ELSE 0)

\* mutant of shifted: the copy runs in place, front to back, so each segment
\* takes the position its predecessor has just been given
shifted_in_place(snapshot, p) ==
    [i \in 1..Len(snapshot) |-> p]

\* the positions of the listed entities after the head's move and the zip:
\* the head at p, entry i+1 at the snapshot's i-th position
shifted(snapshot, p) ==
    [i \in 1..Len(snapshot) |-> IF i = 1 THEN p ELSE snapshot[i - 1]]

\* segment_positions.last()
last_of(snapshot) ==
    snapshot[Len(snapshot)]

\* mutant of random_cell: every draw gives the start coordinate
random_cell_stuck(k, arena) ==
    3

\* (random::<f32>() * arena as f32) as i32 for the draw k / RandDen
random_cell(k, arena) ==
    (k * arena) \div RandDen

\* mutant of is_valid_position: x is compared with y and y with x
is_valid_position_swapped(head_pos, x, y) ==
    ~(head_pos[1] = y /\ head_pos[2] = x)

\* the for loop of food_spawner over the live heads
is_valid_position(head_pos, x, y) ==
    ~(head_pos[1] = x /\ head_pos[2] = y)

\* EventReader::is_empty of a reader that never reads: its cursor stays at
\* the start, so it sees every event still in either buffer
is_empty(events) ==
    events.a + events.b = 0

\* EventWriter::send, n times
send(events, n) ==
    [events EXCEPT !.b = @ + n]

\* Events::update: the older buffer is dropped, the newer becomes the older
update(events) ==
    [a |-> events.b, b |-> 0]

\* the Position of the live SnakeHead entity (what Query<&Position,
\* With<SnakeHead>> yields): the listed head, or the old head while its
\* despawn is still queued
HeadPos ==
    IF retired # None THEN unwrap(retired).head ELSE segments[1].pos

\* the live Food entities at cell p, all of them
FoodAt(p) ==
    IF BagIn(p, foods) THEN [c \in {p} |-> CopiesIn(p, foods)] ELSE EmptyBag

\* marking entities for despawn twice despawns them once
BagMax(b1, b2) ==
    [c \in DOMAIN b1 \cup DOMAIN b2 |->
        IF CopiesIn(c, b1) >= CopiesIn(c, b2) THEN CopiesIn(c, b1) ELSE CopiesIn(c, b2)]

\* spawn_snake: the new list of two entities whose spawns are queued
spawn_snake ==
    << [pos |-> StartPosition, spawned |-> FALSE],
       [pos |-> StartPosition, spawned |-> FALSE] >>

\* spawn_segment: a reserved entity whose spawn at position p is queued
spawn_segment(p) ==
    [pos |-> p, spawned |-> FALSE]

\* mutant of grown: one push per event the reader holds
grown_per_event(list, events, tail) ==
    [i \in 1..(Len(list) + events.a + events.b) |->
        IF i <= Len(list) THEN list[i] ELSE spawn_segment(unwrap(tail))]

\* the SnakeSegments list after snake_growth: one push when the reader is not
\* empty, however many events it holds
grown(list, events, tail) ==
    IF is_empty(events) THEN list ELSE Append(list, spawn_segment(unwrap(tail)))

Ready(s) ==
    /\ ~panicked
    /\ s \in due \ ran
    /\ (Before(s) \cap due) \subseteq ran

\* applying the queued commands
Flush ==
    /\ foods' = (foods (-) foodDespawns) (+) foodSpawns
    /\ foodSpawns' = EmptyBag
    /\ foodDespawns' = EmptyBag
    /\ segments' = [i \in 1..Len(segments) |-> [segments[i] EXCEPT !.spawned = TRUE]]
    /\ direction' = IF retired # None THEN "Up" ELSE direction
    /\ retired' = None

\* ------------------------------------------------------------ initial state
\* after the Startup schedule: spawn_snake has run and its commands are applied
Init ==
    /\ segments = << [pos |-> StartPosition, spawned |-> TRUE],
                     [pos |-> StartPosition, spawned |-> TRUE] >>
    /\ direction = "Up"
    /\ last_tail_position = None
    /\ foods = EmptyBag
    /\ foodSpawns = EmptyBag
    /\ foodDespawns = EmptyBag
    /\ retired = None
    /\ orphans = 0
    /\ growthEvents = [a |-> 0, b |-> 0]
    /\ gameOverEvents = [a |-> 0, b |-> 0]
    /\ ticks = 0
    /\ due = {}
    /\ ran = {}
    /\ segment_positions = << >>
    /\ valid_position = TRUE
    /\ panicked = FALSE
    /\ moves = 0

\* ------------------------------------------------------------ actions
\* a run of the FixedUpdate schedule starts; the two on_timer conditions
\* decide which systems it runs
BeginTick ==
    /\ due = {}
    /\ ~panicked
    /\ ticks < MaxTicks
    /\ \E moveDue \in BOOLEAN, foodDue \in BOOLEAN :
        /\ moveDue => moves < MaxMoves
        /\ foodDue => BagCardinality(foods) < MaxFood
        /\ due' = Always \cup (IF moveDue THEN OnMoveTimer ELSE {})
                         \cup (IF foodDue THEN OnFoodTimer ELSE {})
    /\ ran' = {}
    /\ UNCHANGED <<segments, direction, last_tail_position, foods, foodSpawns,
                   foodDespawns, retired, orphans, growthEvents, gameOverEvents,
                   ticks, segment_positions, valid_position, panicked, moves>>

\* snake_movement_input with the keys `keys` held down
snake_movement_input_with(keys) ==
    /\ Ready("snake_movement_input")
    /\ direction' = set_direction(pressed_dir(keys, direction), direction)
    /\ ran' = ran \cup {"snake_movement_input"}
    /\ UNCHANGED <<segments, last_tail_position, foods, foodSpawns,
                   foodDespawns, retired, orphans, growthEvents, gameOverEvents,
                   ticks, due, segment_positions, valid_position, panicked, moves>>

snake_movement_input ==
    \E keys \in SUBSET KeyCode : snake_movement_input_with(keys)

snake_movement ==
    /\ Ready("snake_movement")
    /\ ran' = ran \cup {"snake_movement"}
    /\ moves' = moves + 1
    /\ IF \E i \in 1..Len(segments) : ~segments[i].spawned
       THEN \* positions.get_mut(..).unwrap() on an entity that is not spawned
            /\ panicked' = TRUE
            /\ UNCHANGED <<segments, last_tail_position, gameOverEvents,
                           segment_positions>>
       ELSE LET snapshot == [i \in 1..Len(segments) |-> segments[i].pos]
                head_pos == head_step(snapshot[1], direction)
                moved == shifted(snapshot, head_pos)
            IN  /\ segment_positions' = snapshot
                /\ gameOverEvents' = send(gameOverEvents, game_over_sends(snapshot, head_pos))
                /\ segments' = [i \in 1..Len(segments) |->
                                   [segments[i] EXCEPT !.pos = moved[i]]]
                /\ last_tail_position' = Some(last_of(snapshot))
                /\ UNCHANGED panicked
    /\ UNCHANGED <<direction, foods, foodSpawns, foodDespawns, retired, orphans,
                   growthEvents, ticks, due, valid_position>>

snake_eating ==
    /\ Ready("snake_eating")
    /\ ran' = ran \cup {"snake_eating"}
    /\ foodDespawns' = BagMax(foodDespawns, FoodAt(HeadPos))
    /\ growthEvents' = send(growthEvents, CopiesIn(HeadPos, foods))
    /\ UNCHANGED <<segments, direction, last_tail_position, foods, foodSpawns,
                   retired, orphans, gameOverEvents, ticks, due,
                   segment_positions, valid_position, panicked, moves>>

apply_deferred ==
    /\ Ready("apply_deferred")
    /\ ran' = ran \cup {"apply_deferred"}
    /\ Flush
    /\ UNCHANGED <<last_tail_position, orphans, growthEvents, gameOverEvents,
                   ticks, due, segment_positions, valid_position, panicked, moves>>

snake_growth ==
    /\ Ready("snake_growth")
    /\ ran' = ran \cup {"snake_growth"}
    /\ IF is_empty(growthEvents)
       THEN UNCHANGED <<segments, panicked>>
       ELSE IF last_tail_position = None
            THEN \* last_tail_position.0.unwrap() on None
                 /\ panicked' = TRUE
                 /\ UNCHANGED segments
            ELSE /\ Len(segments) < MaxLen
                 /\ segments' = grown(segments, growthEvents, last_tail_position)
                 /\ UNCHANGED panicked
    /\ UNCHANGED <<direction, last_tail_position, foods, foodSpawns, foodDespawns,
                   retired, orphans, growthEvents, gameOverEvents, ticks,
                   due, segment_positions, valid_position, moves>>

game_over ==
    /\ Ready("game_over")
    /\ ran' = ran \cup {"game_over"}
    /\ IF is_empty(gameOverEvents)
       THEN UNCHANGED <<segments, foodDespawns, retired, orphans, moves>>
       ELSE LET listed == {i \in 1..Len(segments) : segments[i].spawned}
            IN  /\ foodDespawns' = foods
                /\ retired' = Some([head |-> HeadPos,
                                    segments |-> Cardinality(listed) + orphans])
                /\ orphans' = Len(segments) - Cardinality(listed)
                /\ segments' = spawn_snake
                /\ moves' = 0
    /\ UNCHANGED <<direction, last_tail_position, foods, foodSpawns,
                   growthEvents, gameOverEvents, ticks, due,
                   segment_positions, valid_position, panicked>>

\* one iteration of food_spawner's loop whose draw is the head's cell
food_spawner_redraw ==
    /\ Ready("food_spawner")
    /\ \E kx \in 0..(RandDen - 1), ky \in 0..(RandDen - 1) :
        LET x == random_cell(kx, ARENA_WIDTH)
            y == random_cell(ky, ARENA_HEIGHT)
        IN  /\ ~is_valid_position(HeadPos, x, y)
            /\ valid_position' = FALSE
    /\ UNCHANGED <<segments, direction, last_tail_position, foods, foodSpawns,
                   foodDespawns, retired, orphans, growthEvents, gameOverEvents,
                   ticks, due, ran, segment_positions, panicked, moves>>

\* the iteration of food_spawner's loop that breaks, and the spawn after it
food_spawner ==
    /\ Ready("food_spawner")
    /\ ran' = ran \cup {"food_spawner"}
    /\ \E kx \in 0..(RandDen - 1), ky \in 0..(RandDen - 1) :
        LET x == random_cell(kx, ARENA_WIDTH)
            y == random_cell(ky, ARENA_HEIGHT)
        IN  /\ is_valid_position(HeadPos, x, y)
            /\ valid_position' = TRUE
            /\ foodSpawns' = foodSpawns (+) SetToBag({<<x, y>>})
    /\ UNCHANGED <<segments, direction, last_tail_position, foods, foodDespawns,
                   retired, orphans, growthEvents, gameOverEvents, ticks,
                   due, segment_positions, panicked, moves>>

\* the schedule run ends: the executor applies what is still queued
EndTick ==
    /\ due # {}
    /\ ran = due
    /\ ~panicked
    /\ Flush
    /\ due' = {}
    /\ ran' = {}
    /\ ticks' = ticks + 1
    /\ segment_positions' = << >>
    /\ UNCHANGED <<last_tail_position, orphans, growthEvents, gameOverEvents,
                   valid_position, panicked, moves>>

\* between two frames' fixed ticks: both event queues swap their buffers,
\* once per frame in which a fixed tick has run
event_update_system ==
    /\ due = {}
    /\ ticks > 0
    /\ ~panicked
    /\ growthEvents' = update(growthEvents)
    /\ gameOverEvents' = update(gameOverEvents)
    /\ ticks' = 0
    /\ UNCHANGED <<segments, direction, last_tail_position, foods, foodSpawns,
                   foodDespawns, retired, orphans, due, ran, segment_positions,
                   valid_position, panicked, moves>>

Next ==
    \/ BeginTick
    \/ snake_movement_input
    \/ snake_movement
    \/ snake_eating
    \/ apply_deferred
    \/ snake_growth
    \/ game_over
    \/ food_spawner_redraw
    \/ food_spawner
    \/ EndTick
    \/ event_update_system

Spec == Init /\ [][Next]_vars

\* ------------------------------------------------------------ claims
\* system s runs in this step
Runs(s) ==
    s \notin ran /\ s \in ran'

\* what the input phase is claimed to leave in the head for candidate r
\* and current direction c
Claimed_direction(r, c) ==
    IF (r = "Left" /\ c = "Right") \/ (r = "Right" /\ c = "Left")
       \/ (r = "Up" /\ c = "Down") \/ (r = "Down" /\ c = "Up")
    THEN c ELSE r

\* C1: whenever the input phase can run, then for every set of held keys it
\* can run with those keys, and every such run leaves the head direction
\* unchanged when the candidate is the opposite of the current direction,
\* equal to the candidate otherwise; with no key held it leaves it unchanged.
C1_InputDirection ==
    Ready("snake_movement_input") =>
        \A keys \in SUBSET KeyCode :
            LET r == pressed_dir(keys, direction)
                c == direction
            IN  /\ ENABLED (snake_movement_input_with(keys)
                            /\ direction' = Claimed_direction(r, c))
                /\ ~ENABLED (snake_movement_input_with(keys)
                             /\ direction' # Claimed_direction(r, c))
                /\ keys = {} => r = c

\* C1 witness: the input phase has run and the head faces Down, which from
\* the start direction Up takes two accepted turns.
C1_Witness ==
    /\ "snake_movement_input" \in ran
    /\ direction = "Down"

\* C2: every movement step moves the head by one unit along one axis as the
\* head direction at the time of the move says: Left x-1, Right x+1, Up y+1,
\* Down y-1, the other coordinate unchanged.
C2_HeadStep ==
    [][Runs("snake_movement") /\ ~panicked' =>
        LET p == segments[1].pos
            q == segments'[1].pos
        IN  /\ direction = "Left" => q = <<p[1] - 1, p[2]>>
            /\ direction = "Right" => q = <<p[1] + 1, p[2]>>
            /\ direction = "Up" => q = <<p[1], p[2] + 1>>
            /\ direction = "Down" => q = <<p[1], p[2] - 1>>]_vars

\* C2 witness: a movement step has run with the head facing Down, and the
\* head is one cell below its pre-move cell.
C2_Witness ==
    /\ "snake_movement" \in ran
    /\ "game_over" \notin ran
    /\ direction = "Down"
    /\ segment_positions # << >>
    /\ segments[1].pos = <<segment_positions[1][1], segment_positions[1][2] - 1>>

\* C3: every movement step on a chain of n >= 2 segments puts segment i at
\* the pre-move position of segment i-1 for every i >= 1, keeps the length,
\* and sets LastTailPosition to the pre-move position of the last segment.
C3_ParallelShift ==
    [][Runs("snake_movement") /\ ~panicked' /\ Len(segments) >= 2 =>
        /\ Len(segments') = Len(segments)
        /\ \A i \in 2..Len(segments) : segments'[i].pos = segments[i - 1].pos
        /\ last_tail_position' = Some(segments[Len(segments)].pos)]_vars

\* C3 witness: a movement step has run on a chain of three segments at three
\* different cells, overwriting an earlier LastTailPosition.
C3_Witness ==
    /\ "snake_movement" \in ran
    /\ "game_over" \notin ran
    /\ Len(segment_positions) = 3
    /\ Len(segments) = 3
    /\ segments[2].pos = segment_positions[1]
    /\ segments[3].pos = segment_positions[2]
    /\ segment_positions[2] # segment_positions[3]
    /\ segment_positions[1] # segment_positions[2]
    /\ last_tail_position = Some(segment_positions[3])

\* C4: a movement step that puts the head outside the arena raises a
\* game-over signal in that step, and still shifts the body and records
\* LastTailPosition, all before the reset of that tick runs.
C4_OutOfBounds ==
    [][Runs("snake_movement") /\ ~panicked'
       /\ (segments'[1].pos[1] < 0 \/ segments'[1].pos[1] >= 10
           \/ segments'[1].pos[2] < 0 \/ segments'[1].pos[2] >= 10)
       =>
        /\ gameOverEvents'.b > gameOverEvents.b
        /\ \A i \in 2..Len(segments) : segments'[i].pos = segments[i - 1].pos
        /\ last_tail_position' = Some(segments[Len(segments)].pos)
        /\ "game_over" \notin ran'
        /\ retired' = None]_vars

\* C4 witness: the head has moved to (-1, 3) from (0, 3), the signal is
\* pending, the body has shifted and the tail cell is recorded.
C4_Witness ==
    /\ "snake_movement" \in ran
    /\ "game_over" \notin ran
    /\ segments[1].pos = <<-1, 3>>
    /\ segments[2].pos = <<0, 3>>
    /\ last_tail_position = Some(segment_positions[Len(segment_positions)])
    /\ gameOverEvents.b > 0

\* C5: a movement step whose new head position equals the pre-move position
\* of any segment, the pre-move tail included, raises a game-over signal.
C5_SelfCollision ==
    [][Runs("snake_movement") /\ ~panicked'
       /\ (\E i \in 1..Len(segments) : segments[i].pos = segments'[1].pos)
       =>
        gameOverEvents'.b > gameOverEvents.b]_vars

\* C5 witness: the head has moved into the cell the tail held before the
\* move, the cell that very step vacates, and the signal is pending.
C5_Witness ==
    /\ "snake_movement" \in ran
    /\ "game_over" \notin ran
    /\ Len(segment_positions) >= 2
    /\ segments[1].pos = segment_positions[Len(segment_positions)]
    /\ segments[Len(segments)].pos # segment_positions[Len(segment_positions)]
    /\ gameOverEvents.b > 0

\* the schedule run ends in this step
TickEnds ==
    due # {} /\ due' = {}

\* C6: when the eating phase finds a live food item at the head's cell it
\* queues that item's removal and raises one growth signal for it; the growth
\* phase of a tick with a growth signal appends exactly one segment, at the
\* recorded LastTailPosition; the growth phase of a tick in which no growth
\* signal was raised leaves the chain length unchanged.
C6_EatThenGrow ==
    [][/\ Runs("snake_eating") /\ BagIn(HeadPos, foods) =>
            /\ CopiesIn(HeadPos, foodDespawns') = CopiesIn(HeadPos, foods)
            /\ growthEvents'.b = growthEvents.b + CopiesIn(HeadPos, foods)
       /\ Runs("snake_growth") /\ growthEvents.b > 0 =>
            segments' = Append(segments,
                               [pos |-> unwrap(last_tail_position), spawned |-> FALSE])
       /\ Runs("snake_growth") /\ growthEvents.b = 0 =>
            Len(segments') = Len(segments)]_vars

\* C7: at the end of every tick in which the reset ran on a pending game-over
\* signal, the chain has exactly 2 segments, both at (3,3), the head faces
\* Up, and no food entity is live.
C7_AfterReset ==
    [][TickEnds /\ "game_over" \in ran /\ ~is_empty(gameOverEvents) =>
        /\ Len(segments') = 2
        /\ segments'[1].pos = <<3, 3>>
        /\ segments'[2].pos = <<3, 3>>
        /\ direction' = "Up"
        /\ foods' = EmptyBag]_vars

\* C8: every food item the food spawner creates is placed inside the arena
\* and not at the cell of the live head at the moment the spawner runs.
C8_FoodPlacement ==
    [][Runs("food_spawner") =>
        \E x \in 0..9, y \in 0..9 :
            /\ foodSpawns' = foodSpawns (+) SetToBag({<<x, y>>})
            /\ <<x, y>> # HeadPos]_vars

\* a cell the random draws of the food spawner can produce
Drawable(p) ==
    \E kx \in 0..(RandDen - 1), ky \in 0..(RandDen - 1) :
        p = <<random_cell(kx, ARENA_WIDTH), random_cell(ky, ARENA_HEIGHT)>>

\* C8 witness: the spawner has queued a food item while the live head stands
\* on a cell its draws can produce, and the item is not on that cell.
C8_Witness ==
    /\ "food_spawner" \in ran
    /\ foodSpawns # EmptyBag
    /\ Drawable(HeadPos)
    /\ ~BagIn(HeadPos, foodSpawns)

C10_AtMostOneFood ==
    BagCardinality(foods) <= 1

\* C11: the reset acts on a pending game-over signal only after the movement,
\* eating and growth phases due in that tick have all run.
C11_ResetAfterPhases ==
    [][Runs("game_over") /\ ~is_empty(gameOverEvents) =>
        (due \cap {"snake_movement", "snake_eating", "snake_growth"}) \subseteq ran]_vars

\* C12: signals are one-shot: the reset replaces the chain only in a tick
\* whose own movement step raised a game-over signal, and the growth phase
\* appends a segment only in a tick whose own eating phase raised a growth
\* signal.
C12_OneShotSignals ==
    [][/\ Runs("game_over") /\ segments' # segments =>
            /\ "snake_movement" \in ran
            /\ game_over_sends(segment_positions, segments[1].pos) > 0
       /\ Runs("snake_growth") /\ Len(segments') > Len(segments) =>
            /\ "snake_eating" \in ran
            /\ growthEvents.b > 0]_vars

\* C13: a movement step from the startup configuration (head and one body
\* segment both at (3,3), facing Up) puts the head at (3,4), leaves the tail
\* segment at (3,3) and raises no game-over signal.
C13_FirstStep ==
    [][/\ Runs("snake_movement")
       /\ Len(segments) = 2
       /\ segments[1] = [pos |-> <<3, 3>>, spawned |-> TRUE]
       /\ segments[2] = [pos |-> <<3, 3>>, spawned |-> TRUE]
       /\ direction = "Up"
       =>
        /\ Len(segments') = 2
        /\ segments'[1].pos = <<3, 4>>
        /\ segments'[2].pos = <<3, 3>>
        /\ gameOverEvents' = gameOverEvents
        /\ ~panicked']_vars

\* C13 witness: a movement step has run on the startup snapshot, which holds
\* (3,3) twice; the head is at (3,4), the tail at (3,3), and no
\* game-over signal is in the queue.
C13_Witness ==
    /\ "snake_movement" \in ran
    /\ segment_positions = <<(<<3, 3>>), (<<3, 3>>)>>
    /\ segments[1].pos = <<3, 4>>
    /\ segments[2].pos = <<3, 3>>
    /\ is_empty(gameOverEvents)
    /\ last_tail_position = Some(<<3, 3>>)

\* C14: the food spawner never places food on a cell occupied by any part of
\* the snake: the cell of the item it queues differs from the position of
\* every live segment of the chain at that moment.
C14_FoodAvoidsSnake ==
    [][Runs("food_spawner") =>
        \A i \in 1..Len(segments) :
            segments[i].spawned =>
                CopiesIn(segments[i].pos, foodSpawns')
                    = CopiesIn(segments[i].pos, foodSpawns)]_vars

\* C15: a movement step that follows an earlier movement step of the same
\* snake never uses the opposite of the direction the earlier step used, so
\* it never moves the head into the cell of the second segment.  (After a
\* movement step the second segment holds the cell the head left, so the
\* earlier step's direction is the one leading from the second segment's cell
\* to the head's.)
C15_NoReversalAcrossSteps ==
    [][Runs("snake_movement") /\ ~panicked' /\ segments[1].pos # segments[2].pos =>
        /\ \A d \in Direction :
               head_step(segments[2].pos, d) = segments[1].pos =>
                   direction # opposite(d)
        /\ segments'[1].pos # segments[2].pos]_vars

\* C16: in every tick the movement step runs after the input phase, the
\* eating phase after the movement step and the growth phase after the eating
\* phase; the eating phase raises its growth signals for the food at the
\* head's post-move position of that tick, and a segment the growth phase
\* appends is at the pre-move tail position of that tick's movement step.
C16_PhaseOrder ==
    [][/\ Runs("snake_movement") => "snake_movement_input" \in ran
       /\ Runs("snake_eating") =>
            /\ "snake_movement" \in ran
            /\ LET moved == <<segment_positions[1][1]
                                + (IF direction = "Right" THEN 1
                                   ELSE IF direction = "Left" THEN -1 ELSE 0),
                              segment_positions[1][2]
                                + (IF direction = "Up" THEN 1
                                   ELSE IF direction = "Down" THEN -1 ELSE 0)>>
               IN  /\ growthEvents'.b = growthEvents.b + CopiesIn(moved, foods)
                   /\ \A c \in BagToSet(foods) :
                          CopiesIn(c, foodDespawns') =
                              IF c = moved THEN CopiesIn(c, foods)
                              ELSE CopiesIn(c, foodDespawns)
       /\ Runs("snake_growth") =>
            /\ "snake_eating" \in ran
            /\ Len(segments') > Len(segments) =>
                   /\ Len(segments') = Len(segments) + 1
                   /\ segments'[Len(segments')].pos
                          = segment_positions[Len(segment_positions)]]_vars

\* C16 witness: the growth phase has run after this tick's movement and
\* eating, the eating phase found food under the moved head, and the new
\* segment is at the tail cell of this tick's snapshot, which is not the tail
\* cell the movement step before it recorded.
C16_Witness ==
    /\ {"snake_movement", "snake_eating", "snake_growth"} \subseteq ran
    /\ "game_over" \notin ran
    /\ growthEvents = [a |-> 0, b |-> 1]
    /\ Len(segment_positions) = 2
    /\ Len(segments) = 3
    /\ segments[3].pos = segment_positions[2]
    /\ segments[3].pos # segments[2].pos
    /\ segment_positions[1] # segment_positions[2]

\* cells p and q differ by one unit along exactly one axis
Adjacent(p, q) ==
    \/ p[1] = q[1] /\ (p[2] = q[2] + 1 \/ q[2] = p[2] + 1)
    \/ p[2] = q[2] /\ (p[1] = q[1] + 1 \/ q[1] = p[1] + 1)

\* C17: after every movement step the chain is contiguous: every two
\* consecutive segments are at grid-adjacent cells.
C17_ContiguousAfterMove ==
    [][Runs("snake_movement") /\ ~panicked' =>
        \A i \in 1..(Len(segments') - 1) :
            Adjacent(segments'[i].pos, segments'[i + 1].pos)]_vars

\* the most runs of snake_movement between two resets in the runs explored
\* for termination
LiveMoves == 2

\* a run of the FixedUpdate schedule starts, within LiveMoves
BeginTickLive ==
    /\ BeginTick
    /\ "snake_movement" \in due' => moves < LiveMoves

NextLive ==
    \/ BeginTickLive
    \/ snake_movement_input
    \/ snake_movement
    \/ snake_eating
    \/ apply_deferred
    \/ snake_growth
    \/ game_over
    \/ food_spawner_redraw
    \/ food_spawner
    \/ EndTick
    \/ event_update_system

\* the schedule runs with fair random draws: a draw that food_spawner's loop
\* accepts is not forever avoided while the loop can still run
FairSpec == Init /\ [][NextLive]_vars /\ WF_vars(food_spawner)

\* C18: every run of the food spawner terminates: whenever the spawner can
\* run, it eventually leaves its loop and has run.
C18_SpawnerTerminates ==
    Ready("food_spawner") ~> ("food_spawner" \in ran)

\* C18 witness: the spawner's loop has rejected a draw, the head's cell, and
\* is still to leave its loop.
C18_Witness ==
    /\ Ready("food_spawner")
    /\ ~valid_position
    /\ Drawable(HeadPos)

\* C19: between two ticks exactly one head is live and it is the first entry
\* of the segment list, the list has at least 2 entries, every entry is a live
\* entity, and every live segment entity is an entry of the list.
C19_ListMatchesStore ==
    due = {} =>
        /\ Len(segments) >= 2
        /\ \A i \in 1..Len(segments) : segments[i].spawned
        /\ retired = None
        /\ orphans = 0

\* C20: LastTailPosition is None only while no movement step has run; once
\* it holds a value it is never cleared, the reset leaves it unchanged, and
\* whenever the growth phase sees a growth signal LastTailPosition holds a
\* value, so no unwrap fails.
C20_TailPositionKept ==
    /\ [](/\ last_tail_position = None =>
                /\ "snake_movement" \notin ran
                /\ moves = 0
                /\ \A i \in 1..Len(segments) : segments[i].pos = <<3, 3>>
          /\ ~panicked)
    /\ [][/\ last_tail_position # None => last_tail_position' # None
          /\ Runs("game_over") => last_tail_position' = last_tail_position
          /\ Runs("snake_growth") /\ ~is_empty(growthEvents) =>
                /\ last_tail_position # None
                /\ Len(segments') = Len(segments) + 1]_vars

\* C20 witness: after a reset in an earlier tick, which left an unlisted
\* segment behind, the growth phase has appended a segment at the value
\* LastTailPosition holds.
C20_Witness ==
    /\ "snake_growth" \in ran
    /\ "game_over" \notin ran
    /\ orphans > 0
    /\ ~is_empty(growthEvents)
    /\ last_tail_position # None
    /\ Len(segments) = Len(segment_positions) + 1
    /\ segments[Len(segments)] = [pos |-> unwrap(last_tail_position), spawned |-> FALSE]
    /\ ~panicked

====
